---- MODULE Spec2Model ----
(***************************************************************************)
(* Model of databuilder/extractor/bigquery_usage_extractor.py:             *)
(* BigQueryTableUsageExtractor.  init() pages over the audit log           *)
(* (_page_over_results), filters every entry and tallies one count per     *)
(* (referenced table, principal email) in table_usage_counts               *)
(* (_count_usage); extract() then walks the keys of the tally.             *)
(***************************************************************************)
EXTENDS Integers, Sequences, FiniteSets, TLC

\* ------------------------------------------------------------------ bounds
MaxPages == 2        \* pages of a log
MaxEntries == 2      \* entries of a log, all pages together
MaxFailures == 2     \* failed continuation requests of one run
MaxRefTables == 2    \* referenced tables of a probed entry
ExtraCalls == 2      \* calls of extract() after the iterator is exhausted

\* --------------------------------------------------------------- constants
DELAY_TIME == 10

NoToken == 0         \* the request body / the response carries no page token
NoResponse == 0      \* response = None
Unset == -1          \* self.iter is not assigned
Missing == "<missing>"   \* a key that is not in a dict

\* ------------------------------------------------------------ log entries
\* principalEmail values and email_pattern values are strings, modelled as
\* sequences of characters.
EmailA == <<"a", "x">>
EmailB == <<"x", "a">>
NoPattern == <<>>    \* email_pattern None (or ''): both are falsy
PatternA == <<"a">>
Patterns == {NoPattern, PatternA}

T1 == [projectId |-> "p", datasetId |-> "d", tableId |-> "t"]
T2 == [projectId |-> "p", datasetId |-> "d", tableId |-> "u"]
TBad == [projectId |-> "p", datasetId |-> "d", tableId |-> Missing]

\* An entry, by the fields _count_usage reads:
\*   hasJob      entry['protoPayload']['serviceData']['jobCompletedEvent']['job'] is reachable
\*   state       job['jobStatus']['state'], Missing when jobStatus or state is absent
\*   error       job['jobStatus'].get('error'): "absent", "empty" or "nonempty"
\*   hasEmail    entry['protoPayload']['authenticationInfo']['principalEmail'] is reachable
\*   email       its value
\*   hasStats    job['jobStatistics'] is present
\*   hasRefs     'referencedTables' is a key of job['jobStatistics']
\*   refs        its value, a list of tables
\*   hasTotal    'totalTablesProcessed' is a key of job['jobStatistics']
\*   total       its value
\*   hasJobName  job['jobName']['jobId'] is reachable
Entry(hasJob, state, error, hasEmail, email, hasStats, hasRefs, refs, hasTotal, total, hasJobName) ==
    [hasJob |-> hasJob, state |-> state, error |-> error, hasEmail |-> hasEmail,
     email |-> email, hasStats |-> hasStats, hasRefs |-> hasRefs, refs |-> refs,
     hasTotal |-> hasTotal, total |-> total, hasJobName |-> hasJobName]

Good(email, refs) ==
    Entry(TRUE, "DONE", "absent", TRUE, email, TRUE, TRUE, refs, TRUE, Len(refs), TRUE)

\* The entries the logs of Spec are built from.
G1 == Good(EmailA, <<T1>>)
G2 == Good(EmailA, <<T1, T2>>)
G3 == Good(EmailB, <<T1>>)
Running == [G1 EXCEPT !.state = "RUNNING"]
NoStatus == [G1 EXCEPT !.state = Missing]
EntryPool == {G1, G2, G3, Running, NoStatus}

\* The entries SpecEntry probes: every combination of the fields.
SeqsUpTo(S, n) == UNION {[1..k -> S] : k \in 0..n}
TablePool == {T1, T2, TBad}
AllEntries ==
    {Entry(j, s, er, em # <<>>, em, hs, rf # <<>>, IF rf = <<>> THEN <<>> ELSE rf[1],
           tt # 0, tt, jn) :
        j \in BOOLEAN, s \in {Missing, "DONE", "RUNNING"},
        er \in {"absent", "empty", "nonempty"},
        em \in {<<>>, EmailA, EmailB}, hs \in BOOLEAN,
        rf \in {<<>>} \cup {<<r>> : r \in SeqsUpTo(TablePool, MaxRefTables)},
        tt \in 0..MaxRefTables, jn \in BOOLEAN}

\* Tables that differ from T1 in the project alone and in the dataset alone.
TProject == [projectId |-> "q", datasetId |-> "d", tableId |-> "t"]
TDataset == [projectId |-> "p", datasetId |-> "e", tableId |-> "t"]

\* The entries SpecKeys counts: one table of four, one identity of two.
KeyEntries == {Good(em, <<t>>) : em \in {EmailA, EmailB}, t \in {T1, T2, TProject, TDataset}}

\* ------------------------------------------------------------------- logs
\* A log is the sequence of responses the logging service holds for the
\* query: page i carries the continuation token of page i+1, the last page
\* carries none.  hasEntries: 'entries' is a key of the response.
Page(hasEntries, entries, token) ==
    [hasEntries |-> hasEntries, entries |-> entries, token |-> token]

\* The bodies <<hasEntries, entries>> a page of at most m entries can have.
PageBodies(m) ==
    {<<FALSE, <<>>>>} \cup {<<TRUE, es>> : es \in SeqsUpTo(EntryPool, m)}

\* The n-page sequences of bodies that hold at most m entries together.
RECURSIVE BodySeqs(_, _)
BodySeqs(n, m) ==
    IF n = 0
    THEN {<<>>}
    ELSE UNION {{<<b>> \o rest : rest \in BodySeqs(n - 1, m - Len(b[2]))} :
                   b \in PageBodies(m)}

LinkPages(bodies) ==
    [i \in 1..Len(bodies) |->
        Page(bodies[i][1], bodies[i][2], IF i < Len(bodies) THEN i + 1 ELSE NoToken)]

PoolLogs == {LinkPages(bs) : bs \in UNION {BodySeqs(n, MaxEntries) : n \in 1..MaxPages}}

\* The entry of the spec's scenario: error = [].
Baseline == [G1 EXCEPT !.error = "empty"]

ProbeLogs ==
    {LinkPages(<<<<TRUE, <<Baseline>>>>, <<TRUE, <<e>>>>>>) : e \in AllEntries}

\* Logs of two pages: up to MaxEntries entries of KeyEntries, then one entry
\* that is counted or one that lacks its job state.
KeyLogs ==
    {LinkPages(<<<<TRUE, es>>, <<TRUE, <<e>>>>>>) :
        es \in SeqsUpTo(KeyEntries, MaxEntries) \ {<<>>}, e \in {G3, NoStatus}}

\* ------------------------------------------------------- the tally (a dict)
\* table_usage_counts is a Python dict: a sequence of items in the order in
\* which their keys were first inserted.
Keys(d) == {d[i].key : i \in 1..Len(d)}

DictGet(d, k, default) ==
    IF k \in Keys(d)
    THEN d[CHOOSE i \in 1..Len(d) : d[i].key = k].value
    ELSE default

\* A dict that moves a key it stores again to the end.
DictSet_MoveToEnd(d, k, v) ==
    LET Other(item) == item.key # k
    IN  Append(SelectSeq(d, Other), [key |-> k, value |-> v])

DictSet(d, k, v) ==
    IF k \in Keys(d)
    THEN [i \in 1..Len(d) |-> IF d[i].key = k THEN [key |-> k, value |-> v] ELSE d[i]]
    ELSE Append(d, [key |-> k, value |-> v])

\* --------------------------------------------------------- _count_usage
\* re.search in place of re.match: the pattern may match anywhere.
ReMatch_Anywhere(pattern, email) ==
    \E k \in 0..(Len(email) - Len(pattern)) :
        SubSeq(email, k + 1, k + Len(pattern)) = pattern

\* re.match(pattern, email) for a pattern of literal characters: the pattern
\* matches at the start of the string.
ReMatch(pattern, email) ==
    /\ Len(pattern) <= Len(email)
    /\ SubSeq(email, 1, Len(pattern)) = pattern

\* The state of the job is not looked at.
JobNotDone_Ignored(e) == FALSE

JobNotDone(e) == e.state # "DONE"

\* The error list is not looked at.
HasErrors_Ignored(e) == FALSE

HasErrors(e) == e.error = "nonempty"

\* refTables = job['jobStatistics'].get('referencedTables', None); not refTables
NoRefTables(e) == ~e.hasRefs \/ Len(e.refs) = 0

EmailFiltered(pattern, e) == pattern # <<>> /\ ~ReMatch(pattern, e.email)

Inconsistent(e) == Len(e.refs) # e.total

\* What the body of the loop does with one entry before it reaches the
\* loop over refTables: "skip" (continue), "raise" (a KeyError leaves
\* _count_usage) or "pass".
FilterOutcome(pattern, e) ==
    IF ~e.hasJob THEN "skip"
    ELSE IF e.state = Missing THEN "raise"
    ELSE IF JobNotDone(e) THEN "skip"
    ELSE IF HasErrors(e) THEN "skip"
    ELSE IF ~e.hasEmail THEN "raise"
    ELSE IF ~e.hasStats THEN "raise"
    ELSE IF NoRefTables(e) THEN "skip"
    ELSE IF EmailFiltered(pattern, e) THEN "skip"
    ELSE IF ~e.hasTotal THEN "raise"
    ELSE IF Inconsistent(e) /\ ~e.hasJobName THEN "raise"
    ELSE "pass"

TableComplete(t) ==
    t.projectId # Missing /\ t.datasetId # Missing /\ t.tableId # Missing

\* A key that leaves the acting identity out.
TableColumnUsageTuple_NoEmail(t, email) ==
    [database |-> "bigquery", cluster |-> t.projectId, schema |-> t.datasetId,
     table |-> t.tableId, column |-> "*", email |-> <<>>]

TableColumnUsageTuple(t, email) ==
    [database |-> "bigquery", cluster |-> t.projectId, schema |-> t.datasetId,
     table |-> t.tableId, column |-> "*", email |-> email]

\* A tally that forgets what it held: every key is stored at 1.
Record_NoAccumulate(d, key) == DictSet(d, key, 1)

\* A tally that is replaced by the item it is given.
Record_Replaces(d, key) == <<[key |-> key, value |-> DictGet(d, key, 0) + 1]>>

Record(d, key) == DictSet(d, key, DictGet(d, key, 0) + 1)

\* ------------------------------------------------------------------ state
VARIABLES
    log,                 \* the pages the logging service holds
    email_pattern,       \* self.email_pattern
    pc,                  \* where init() is: "request", "while", "page", "record",
                         \* "next"; "ready" after it returned, "raised" after it raised
    response,            \* _page_over_results: response, the number of a page of log
    pageToken,           \* body['pageToken']
    pos,                 \* _retrieve_records: the entry of the page the loop is at
    ref,                 \* _count_usage: the refTable the inner loop is at
    table_usage_counts,  \* self.table_usage_counts
    iter,                \* self.iter: the number of keys it has returned
    error,               \* the exception that left init(), "none" if none did
    requests,            \* history: the token and the outcome of every list request
    yielded,             \* history: the pages yielded to _retrieve_records
    processed,           \* history: per entry handed to _count_usage, its place in
                         \* the log and the increments it made
    slept,               \* history: seconds spent in sleep()
    warned,              \* history: calls of LOGGER.warn
    results              \* history: what each call of extract() returned or raised

vars == <<log, email_pattern, pc, response, pageToken, pos, ref, table_usage_counts,
          iter, error, requests, yielded, processed, slept, warned, results>>

pageVars == <<response, pageToken, requests, yielded, slept>>
tallyVars == <<table_usage_counts, processed, warned, ref>>

\* The state init() is in once self.table_usage_counts = {} has run (line 71).
Start ==
    /\ email_pattern \in Patterns
    /\ pc = "request"
    /\ response = NoResponse
    /\ pageToken = NoToken
    /\ pos = 0
    /\ ref = 0
    /\ table_usage_counts = <<>>
    /\ iter = Unset
    /\ error = "none"
    /\ requests = <<>>
    /\ yielded = <<>>
    /\ processed = <<>>
    /\ slept = 0
    /\ warned = 0
    /\ results = <<>>

Init == log \in PoolLogs /\ Start

InitKeys == log \in KeyLogs /\ Start

InitEntry == log \in ProbeLogs /\ Start

\* --------------------------------------------------- _page_over_results
\* entries().list(body=body).execute() that succeeds: the page the token names,
\* the first page when the body carries no token.
Serve(token) == IF token = NoToken THEN 1 ELSE token

Request(token, ok) == [token |-> token, ok |-> ok]

\* Lines 158-159, the request succeeds.
FirstRequestOK ==
    /\ pc = "request"
    /\ response' = Serve(pageToken)
    /\ requests' = Append(requests, Request(pageToken, TRUE))
    /\ pc' = "while"
    /\ UNCHANGED <<log, email_pattern, pageToken, pos, iter, error, yielded, slept,
                   results, tallyVars>>

\* A first request that is retried after a sleep like a continuation request.
FirstRequestFail_Retried ==
    /\ pc = "request"
    /\ requests = <<>>
    /\ requests' = Append(requests, Request(pageToken, FALSE))
    /\ slept' = slept + DELAY_TIME
    /\ UNCHANGED <<log, email_pattern, pc, response, pageToken, pos, iter, error, yielded,
                   results, tallyVars>>

\* Lines 158-159, the request raises: nothing catches it up to the caller of init().
FirstRequestFail ==
    /\ pc = "request"
    /\ requests' = Append(requests, Request(pageToken, FALSE))
    /\ error' = "request"
    /\ pc' = "raised"
    /\ UNCHANGED <<log, email_pattern, response, pageToken, pos, iter, yielded, slept,
                   results, tallyVars>>

\* A loop that also ends on a response without entries.
Truthy_NeedsEntries(r) == r # NoResponse /\ log[r].hasEntries

\* bool(response): None and the empty dict are falsy.
Truthy(r) == r # NoResponse /\ (log[r].hasEntries \/ log[r].token # NoToken)

\* Lines 160-162 and, when the loop ends, the return of _count_usage and line 73.
WhileResponse ==
    /\ pc = "while"
    /\ IF ~Truthy(response)
       THEN /\ iter' = 0
            /\ pc' = "ready"
            /\ UNCHANGED <<yielded, pos>>
       ELSE IF log[response].hasEntries
       THEN /\ yielded' = Append(yielded, response)
            /\ pos' = 1
            /\ pc' = "page"
            /\ UNCHANGED iter
       ELSE /\ pc' = "next"
            /\ UNCHANGED <<yielded, pos, iter>>
    /\ UNCHANGED <<log, email_pattern, response, pageToken, error, requests, slept,
                   results, tallyVars>>

\* Lines 165, 169-170: the response carries no token.
NoNextPage ==
    /\ pc = "next"
    /\ log[response].token = NoToken
    /\ response' = NoResponse
    /\ pc' = "while"
    /\ UNCHANGED <<log, email_pattern, pageToken, pos, iter, error, requests, yielded,
                   slept, results, tallyVars>>

\* A continuation request that does not put the token into the body.
ContinueOK_TokenDropped ==
    /\ pc = "next"
    /\ log[response].token # NoToken
    /\ response' = Serve(pageToken)
    /\ requests' = Append(requests, Request(pageToken, TRUE))
    /\ pc' = "while"
    /\ UNCHANGED <<log, email_pattern, pageToken, pos, iter, error, yielded, slept,
                   results, tallyVars>>

\* Lines 165-168, the request succeeds.
ContinueOK ==
    /\ pc = "next"
    /\ log[response].token # NoToken
    /\ pageToken' = log[response].token
    /\ response' = Serve(pageToken')
    /\ requests' = Append(requests, Request(pageToken', TRUE))
    /\ pc' = "while"
    /\ UNCHANGED <<log, email_pattern, pos, iter, error, yielded, slept, results,
                   tallyVars>>

Failures == Cardinality({i \in 1..Len(requests) : ~requests[i].ok})

\* A failed continuation request whose exception is not caught.
ContinueFail_Propagated ==
    /\ pc = "next"
    /\ log[response].token # NoToken
    /\ Failures < MaxFailures
    /\ pageToken' = log[response].token
    /\ requests' = Append(requests, Request(pageToken', FALSE))
    /\ error' = "request"
    /\ pc' = "raised"
    /\ UNCHANGED <<log, email_pattern, response, pos, iter, yielded, slept, results,
                   tallyVars>>

\* A failed request after which the generator never asks again.
ContinueFail_Hangs ==
    /\ pc = "next"
    /\ log[response].token # NoToken
    /\ Failures < MaxFailures
    /\ pageToken' = log[response].token
    /\ requests' = Append(requests, Request(pageToken', FALSE))
    /\ slept' = slept + DELAY_TIME
    /\ pc' = "sleep"
    /\ UNCHANGED <<log, email_pattern, response, pos, iter, error, yielded, results,
                   tallyVars>>

\* Lines 165-168 and 171-173, the request raises: response keeps its value.
\* The code sets no limit to the failures.  The histories (requests, slept)
\* record the first MaxFailures of them; further ones are followed where the
\* response has no entries, so that the retry adds nothing to the tally.
ContinueFail ==
    /\ pc = "next"
    /\ log[response].token # NoToken
    /\ pageToken' = log[response].token
    /\ IF Failures < MaxFailures
       THEN /\ requests' = Append(requests, Request(pageToken', FALSE))
            /\ slept' = slept + DELAY_TIME
       ELSE /\ ~log[response].hasEntries
            /\ UNCHANGED <<requests, slept>>
    /\ pc' = "while"
    /\ UNCHANGED <<log, email_pattern, response, pos, iter, error, yielded, results,
                   tallyVars>>

\* --------------------------------------------- _retrieve_records, _count_usage
CurrentPage == log[response]
CurrentEntry == CurrentPage.entries[pos]

Handled(page, at, incs) == [page |-> page, pos |-> at, incs |-> incs]

\* Line 145: the entries of the page are used up, the generator goes on after
\* its yield.
PageDone ==
    /\ pc = "page"
    /\ pos > Len(CurrentPage.entries)
    /\ pc' = "next"
    /\ UNCHANGED <<log, email_pattern, pos, iter, error, results, pageVars, tallyVars>>

\* Lines 83-109, an entry that reaches a continue.
EntrySkip ==
    /\ pc = "page"
    /\ pos <= Len(CurrentPage.entries)
    /\ FilterOutcome(email_pattern, CurrentEntry) = "skip"
    /\ processed' = Append(processed, Handled(response, pos, 0))
    /\ pos' = pos + 1
    /\ UNCHANGED <<log, email_pattern, pc, iter, error, results, pageVars,
                   table_usage_counts, warned, ref>>

\* Lines 88-114, an entry that lacks a key the code subscripts outside the try:
\* the KeyError leaves _count_usage and init().
EntryRaise ==
    /\ pc = "page"
    /\ pos <= Len(CurrentPage.entries)
    /\ FilterOutcome(email_pattern, CurrentEntry) = "raise"
    /\ processed' = Append(processed, Handled(response, pos, 0))
    /\ error' = "KeyError"
    /\ pc' = "raised"
    /\ UNCHANGED <<log, email_pattern, pos, iter, results, pageVars,
                   table_usage_counts, warned, ref>>

\* Lines 83-116, an entry that reaches the loop over refTables.
EntryPass ==
    /\ pc = "page"
    /\ pos <= Len(CurrentPage.entries)
    /\ FilterOutcome(email_pattern, CurrentEntry) = "pass"
    /\ processed' = Append(processed, Handled(response, pos, 0))
    /\ warned' = IF Inconsistent(CurrentEntry) THEN warned + 1 ELSE warned
    /\ ref' = 1
    /\ pc' = "record"
    /\ UNCHANGED <<log, email_pattern, pos, iter, error, results, pageVars,
                   table_usage_counts>>

\* Lines 116-125, one pass of the loop over refTables.
RecordRefTable ==
    /\ pc = "record"
    /\ IF ~TableComplete(CurrentEntry.refs[ref])
       THEN /\ error' = "KeyError"
            /\ pc' = "raised"
            /\ UNCHANGED <<table_usage_counts, processed, ref, pos>>
       ELSE /\ table_usage_counts' =
                  Record(table_usage_counts,
                         TableColumnUsageTuple(CurrentEntry.refs[ref], CurrentEntry.email))
            /\ processed' =
                  [processed EXCEPT ![Len(processed)].incs = @ + 1]
            /\ IF ref < Len(CurrentEntry.refs)
               THEN ref' = ref + 1 /\ UNCHANGED <<pc, pos>>
               ELSE pc' = "page" /\ pos' = pos + 1 /\ UNCHANGED ref
            /\ UNCHANGED error
    /\ UNCHANGED <<log, email_pattern, iter, results, pageVars, warned>>

\* ---------------------------------------------------------------- extract
Pair(item) == [kind |-> "pair", key |-> item.key, count |-> item.value]
None == [kind |-> "None"]
AttributeError == [kind |-> "AttributeError"]

\* An iterator that starts over when it runs out of keys.
IterNext_Restart(it, d) == IF it < Len(d) THEN it + 1 ELSE 0

\* next(self.iter) on the key iterator of a dict: the cursor moves on while a
\* key is left.
IterNext(it, d) == IF it < Len(d) THEN it + 1 ELSE it

\* What extract() returns, or the exception it raises: self.iter does not
\* exist when init() raised before line 73.
ExtractResult(it, d) ==
    IF it = Unset THEN AttributeError
    ELSE IF it < Len(d) THEN Pair(d[it + 1])
    ELSE None

\* An extract() that takes the item it returns out of the dict.
Extract_Consuming ==
    /\ pc \in {"ready", "raised"}
    /\ Len(results) < Len(table_usage_counts) + ExtraCalls
    /\ results' = Append(results, ExtractResult(IF iter = Unset THEN iter ELSE 0,
                                                table_usage_counts))
    /\ table_usage_counts' =
          IF iter = Unset \/ table_usage_counts = <<>>
          THEN table_usage_counts ELSE Tail(table_usage_counts)
    /\ UNCHANGED <<log, email_pattern, pc, pos, iter, error, pageVars, processed,
                   warned, ref>>

\* Lines 148-154.  init() has returned or raised: the caller has the object.
Extract ==
    /\ pc \in {"ready", "raised"}
    /\ Len(results) < Len(table_usage_counts) + ExtraCalls
    /\ results' = Append(results, ExtractResult(iter, table_usage_counts))
    /\ iter' = IF iter = Unset THEN iter ELSE IterNext(iter, table_usage_counts)
    /\ UNCHANGED <<log, email_pattern, pc, pos, error, pageVars, tallyVars>>

\* ------------------------------------------------------------ specifications
Next ==
    \/ FirstRequestOK
    \/ FirstRequestFail
    \/ WhileResponse
    \/ NoNextPage
    \/ ContinueOK
    \/ ContinueFail
    \/ PageDone
    \/ EntrySkip
    \/ EntryRaise
    \/ EntryPass
    \/ RecordRefTable
    \/ Extract

\* Logs of up to MaxPages pages built from EntryPool.
Spec == Init /\ [][Next]_vars

\* Logs of two pages: Baseline, then one entry of AllEntries.
SpecEntry == InitEntry /\ [][Next]_vars

\* Logs whose entries differ in one field of the key at a time.
SpecKeys == InitKeys /\ [][Next]_vars

\* The steps init() takes by itself, the first request included.
Steps ==
    \/ FirstRequestOK
    \/ FirstRequestFail
    \/ WhileResponse
    \/ NoNextPage
    \/ PageDone
    \/ EntrySkip
    \/ EntryRaise
    \/ EntryPass
    \/ RecordRefTable

\* Spec for a program that keeps running and a backend on which a
\* continuation request that is reissued again and again succeeds in the end.
FairSpec == Spec /\ WF_vars(Steps) /\ SF_vars(ContinueOK)

\* Spec for a program that keeps running, whatever the backend does.
RunningSpec == Spec /\ WF_vars(Steps)

\* ------------------------------------------------------ what the log holds
EntryAt(h) == log[h.page].entries[h.pos]

\* Every key the code subscripts while it handles e is present.
Complete(e) ==
    /\ e.hasJob /\ e.state # Missing /\ e.hasEmail /\ e.hasStats /\ e.hasTotal
    /\ \A j \in 1..Len(e.refs) : TableComplete(e.refs[j])
    /\ Inconsistent(e) => e.hasJobName

\* A valid entry: a complete entry of a job that is DONE without errors, that
\* references at least one table, under an identity the filter lets through.
ValidEntry(pattern, e) ==
    /\ Complete(e)
    /\ e.state = "DONE"
    /\ e.error # "nonempty"
    /\ e.hasRefs /\ Len(e.refs) >= 1
    /\ pattern = <<>> \/ ReMatch(pattern, e.email)

\* The places <<page, entry, refTable>> of the log.
LogRefs ==
    UNION {UNION {{<<p, i, j>> : j \in 1..Len(log[p].entries[i].refs)} :
                     i \in 1..Len(log[p].entries)} : p \in 1..Len(log)}

\* The number of references to the key k in the valid entries of the log.
ExpectedCount(k) ==
    Cardinality({r \in LogRefs :
        LET e == log[r[1]].entries[r[2]]
        IN  /\ ValidEntry(email_pattern, e)
            /\ TableComplete(e.refs[r[3]])
            /\ TableColumnUsageTuple(e.refs[r[3]], e.email) = k})

LogKeys ==
    {TableColumnUsageTuple(log[r[1]].entries[r[2]].refs[r[3]], log[r[1]].entries[r[2]].email) :
        r \in LogRefs}

TallyMatchesLog ==
    \A k \in LogKeys \cup Keys(table_usage_counts) :
        DictGet(table_usage_counts, k, 0) = ExpectedCount(k)

\* An entry of processed that _count_usage is done with.
Finished(i) == i < Len(processed) \/ pc \notin {"record", "raised"}

\* ------------------------------------------------------------------ claims

\* C1: once init() has returned, whatever continuation requests failed on the
\* way, the count of every key is the number of references to it in the valid
\* entries of the log, as after a run in which no request failed.
C1_RetryLeavesTallyExact == pc = "ready" => TallyMatchesLog

\* C2: in a run without a failed request, a valid entry with N referenced tables
\* makes exactly N increments, and once init() has returned the count of every
\* key is the number of its occurrences in the valid entries of all pages.
C2_ValidEntryAddsN ==
    Failures = 0 =>
        /\ \A i \in 1..Len(processed) :
              (Finished(i) /\ ValidEntry(email_pattern, EntryAt(processed[i])))
                  => processed[i].incs = Len(EntryAt(processed[i]).refs)
        /\ pc = "ready" => TallyMatchesLog

\* A failure-free run has ended with a key that two entries and three
\* references made.
C2_Witness ==
    /\ Failures = 0
    /\ pc = "ready"
    /\ \E i \in 1..Len(table_usage_counts) : table_usage_counts[i].value = 3
    /\ \E i \in 1..Len(processed) :
          ValidEntry(email_pattern, EntryAt(processed[i])) /\ processed[i].incs = 2

\* C3: with K keys in the tally, the first K calls of extract() return K pairs
\* of pairwise distinct keys, each a key of the tally with its count, together
\* all the keys; every later call returns None.
C3_ExtractDrainsThenNone ==
    pc = "ready" =>
        LET K == Cardinality(Keys(table_usage_counts))
        IN  /\ \A i \in 1..Len(results) :
                  IF i <= K
                  THEN /\ results[i].kind = "pair"
                       /\ results[i].key \in Keys(table_usage_counts)
                       /\ results[i].count = DictGet(table_usage_counts, results[i].key, 0)
                       /\ \A j \in 1..(i - 1) : results[j].key # results[i].key
                  ELSE results[i] = None
            /\ Len(results) >= K =>
                  {results[i].key : i \in 1..K} = Keys(table_usage_counts)

\* extract() was called K + 2 times on a tally of two keys.
C3_Witness ==
    /\ pc = "ready"
    /\ Cardinality(Keys(table_usage_counts)) = 2
    /\ Len(results) = 4
    /\ results[3] = None /\ results[4] = None

\* The pages of the log that carry entries, up to page n, in the order of the log.
RECURSIVE PagesWithEntries(_)
PagesWithEntries(n) ==
    IF n = 0 THEN <<>>
    ELSE IF log[n].hasEntries THEN Append(PagesWithEntries(n - 1), n)
    ELSE PagesWithEntries(n - 1)

\* The places <<page, entry>> of the log up to page n, in the order of the log.
RECURSIVE EntriesUpTo(_)
EntriesUpTo(n) ==
    IF n = 0 THEN <<>>
    ELSE EntriesUpTo(n - 1) \o [i \in 1..Len(log[n].entries) |-> <<n, i>>]

\* C4: in a run without a failed request the first request carries no token,
\* every later request carries the token of the response before it, and paging
\* stops at the first response without a token: once init() has returned, one
\* request was issued per page, the pages with entries were yielded in the order
\* of the log, every entry of every page was handed to the aggregator in that
\* order, and a page with a token and no entries was passed over without ending
\* the paging.
C4_PagesVisitedInOrder ==
    Failures = 0 =>
        /\ \A i \in 1..Len(requests) :
              requests[i].token = IF i = 1 THEN NoToken ELSE log[i - 1].token
        /\ Len(requests) <= Len(log)
        /\ \E n \in 0..Len(requests) : yielded = PagesWithEntries(n)
        /\ pc = "ready" =>
              /\ Len(requests) = Len(log)
              /\ yielded = PagesWithEntries(Len(log))
              /\ [i \in 1..Len(processed) |-> <<processed[i].page, processed[i].pos>>]
                    = EntriesUpTo(Len(log))

\* A failure-free run is over a log of MaxPages pages whose first page has a
\* token and no entries and whose last page has an entry.
C4_Witness ==
    /\ Failures = 0
    /\ pc = "ready"
    /\ Len(log) = MaxPages
    /\ ~log[1].hasEntries
    /\ Len(requests) = MaxPages
    /\ Len(processed) >= 1 /\ processed[1].page = MaxPages

\* C5: a failed continuation request never ends init(): the request after it
\* carries the same token, a sleep of DELAY_TIME precedes it, and init() is
\* still running while the retry is due, however many requests failed in a row.
C5_ContinuationRetried ==
    /\ error = "request" => Len(requests) = 1
    /\ \A i \in 2..Len(requests) :
          ~requests[i].ok =>
              IF i < Len(requests)
              THEN requests[i + 1].token = requests[i].token
              ELSE /\ pc \in {"while", "page", "record", "next"}
                   /\ response # NoResponse
                   /\ log[response].token = requests[i].token
    /\ slept = DELAY_TIME * Cardinality({i \in 2..Len(requests) : ~requests[i].ok})

\* A continuation request failed twice in a row and then succeeded, and
\* init() returned.
C5_Witness ==
    /\ pc = "ready"
    /\ \E i \in 2..Len(requests) :
          /\ i + 2 <= Len(requests)
          /\ ~requests[i].ok /\ ~requests[i + 1].ok /\ requests[i + 2].ok
          /\ requests[i + 2].token = requests[i].token

\* C6: when the first request raises, init() raises at once, with no second
\* request and no sleep, and extract() never returns a pair on that object.
C6_FirstFailurePropagates ==
    (Len(requests) >= 1 /\ ~requests[1].ok) =>
        /\ pc = "raised"
        /\ error = "request"
        /\ Len(requests) = 1
        /\ slept = 0
        /\ table_usage_counts = <<>>
        /\ \A i \in 1..Len(results) : results[i].kind # "pair"

\* The first request raised and extract() was called afterwards.
C6_Witness ==
    /\ Len(requests) = 1 /\ ~requests[1].ok
    /\ Len(results) = ExtraCalls

\* The entry lacks a field the core reads.
Malformed(e) ==
    \/ ~e.hasJob
    \/ e.state = Missing
    \/ ~e.hasStats
    \/ ~e.hasTotal
    \/ ~e.hasEmail
    \/ \E j \in 1..Len(e.refs) : ~TableComplete(e.refs[j])

\* C7: an entry that lacks a field the core reads is skipped silently: it
\* raises no error, it adds no increment, and aggregation goes on.
C7_MalformedSkipped ==
    \A i \in 1..Len(processed) :
        Malformed(EntryAt(processed[i])) =>
            /\ processed[i].incs = 0
            /\ ~(i = Len(processed) /\ pc = "raised")

\* The last successful request, if any.
LastServed ==
    LET ok == {i \in 1..Len(requests) : requests[i].ok}
    IN  IF ok = {} THEN NoResponse
        ELSE Serve(requests[CHOOSE i \in ok : \A j \in ok : j <= i].token)

\* C8: init() returns only after a response without a continuation token, and
\* extract() returns pairs only after init() has returned: every pair returned
\* carries the count the finished tally holds.
C8_EagerConstruction ==
    /\ (pc = "ready" \/ iter # Unset) =>
          /\ pc = "ready"
          /\ LastServed # NoResponse
          /\ log[LastServed].token = NoToken
    /\ \A i \in 1..Len(results) :
          results[i].kind = "pair" =>
              /\ pc = "ready"
              /\ log[LastServed].token = NoToken
              /\ results[i].count = DictGet(table_usage_counts, results[i].key, 0)

\* extract() returned a pair after a paging of more than one request.
C8_Witness ==
    /\ Len(requests) >= 2
    /\ \E i \in 1..Len(results) : results[i].kind = "pair"

\* The entry would be counted if its job were DONE.
ValidButForState(e) == ValidEntry(email_pattern, [e EXCEPT !.state = "DONE"])

\* C9: an entry whose job state is not "DONE" makes no increment and raises no
\* error, whatever else it holds.
C9_NotDoneAddsNothing ==
    \A i \in 1..Len(processed) :
        EntryAt(processed[i]).state \notin {"DONE", Missing} =>
            /\ processed[i].incs = 0
            /\ ~(i = Len(processed) /\ pc = "raised")

\* A RUNNING entry that is valid otherwise was handled, and init() returned.
C9_Witness ==
    /\ pc = "ready"
    /\ \E i \in 1..Len(processed) :
          /\ EntryAt(processed[i]).state = "RUNNING"
          /\ EntryAt(processed[i]).hasJob
          /\ ValidButForState(EntryAt(processed[i]))

\* C10: an entry whose error list is non-empty makes no increment; an entry
\* that is valid, its error list absent or empty, makes one per referenced table.
C10_ErrorsAddNothing ==
    \A i \in 1..Len(processed) :
        LET e == EntryAt(processed[i])
        IN  /\ e.error = "nonempty" => processed[i].incs = 0
            /\ (Finished(i) /\ e.error \in {"absent", "empty"}
                  /\ ValidEntry(email_pattern, e))
                  => processed[i].incs = Len(e.refs)

\* Handled: an entry of a DONE job with errors that is valid otherwise, and an
\* entry with an empty error list that made increments.
C10_Witness ==
    /\ pc = "ready"
    /\ \E i \in 1..Len(processed) :
          LET e == EntryAt(processed[i])
          IN  /\ e.error = "nonempty" /\ e.state = "DONE"
              /\ ValidEntry(email_pattern, [e EXCEPT !.error = "absent"])
              /\ Len(e.refs) = 2
    /\ \E i \in 1..Len(processed) :
          EntryAt(processed[i]).error = "empty" /\ processed[i].incs >= 1


\* C11: an entry whose referenced-tables list is absent or empty makes no
\* increment and raises no error, and aggregation goes on with the next entry
\* (stated for the entries of a DONE job without errors, the ones the code
\* looks up the list of).
C11_NoRefTablesSkipped ==
    \A i \in 1..Len(processed) :
        LET e == EntryAt(processed[i])
        IN  (e.hasJob /\ e.state = "DONE" /\ e.error # "nonempty"
               /\ (~e.hasStats \/ NoRefTables(e))) =>
                /\ processed[i].incs = 0
                /\ ~(i = Len(processed) /\ pc = "raised")

\* The part of C11 the code keeps: when principalEmail and jobStatistics are
\* present, an absent or empty list makes the code skip the entry.
C11_SkippedWhenEmailAndStatsPresent ==
    \A i \in 1..Len(processed) :
        LET e == EntryAt(processed[i])
        IN  (e.hasJob /\ e.state = "DONE" /\ e.error # "nonempty"
               /\ e.hasEmail /\ e.hasStats /\ NoRefTables(e)) =>
                /\ processed[i].incs = 0
                /\ ~(i = Len(processed) /\ pc = "raised")


\* The entry would be counted if no email_pattern were configured.
ValidButForIdentity(e) == ValidEntry(NoPattern, e)

\* C12: with an email_pattern, an entry that is valid otherwise and whose
\* principalEmail the pattern does not match at its start makes no increment
\* and raises no error; when the pattern matches, or none is configured, the
\* entry makes one increment per referenced table.
C12_IdentityFilter ==
    \A i \in 1..Len(processed) :
        LET e == EntryAt(processed[i])
        IN  (Finished(i) /\ ValidButForIdentity(e)) =>
                IF email_pattern # <<>>
                     /\ SubSeq(e.email, 1, Len(email_pattern)) # email_pattern
                THEN processed[i].incs = 0 /\ pc # "raised"
                ELSE processed[i].incs = Len(e.refs)

\* With the pattern "a": an entry of "xa" with two tables was skipped, after
\* the entry of "ax" was counted.
C12_Witness ==
    /\ pc = "ready"
    /\ email_pattern = PatternA
    /\ Len(processed) = 2
    /\ processed[1].incs = 1
    /\ EntryAt(processed[2]).email = EmailB
    /\ ValidButForIdentity(EntryAt(processed[2]))
    /\ Len(EntryAt(processed[2]).refs) = 2
    /\ processed[2].incs = 0


\* C13: once init() has returned, a step (a call of extract(), before or after
\* the iterator is exhausted) leaves the keys and the counts of the tally as
\* they are and issues no request: only the cursor of the iterator moves.
C13_ReadPhaseFrame ==
    [][pc = "ready" =>
          /\ table_usage_counts' = table_usage_counts
          /\ requests' = requests
          /\ UNCHANGED <<log, email_pattern, pc, response, pageToken, pos, ref, error,
                         yielded, processed, slept, warned>>]_vars

\* extract() was called past the end of a tally of two keys that a run of
\* two requests built.
C13_Witness ==
    /\ pc = "ready"
    /\ Len(table_usage_counts) = 2
    /\ Len(requests) = 2
    /\ Len(results) = Len(table_usage_counts) + ExtraCalls


\* C14: when every continuation request that keeps being reissued succeeds in
\* the end, init() comes to an end for every log: it returns after the response
\* without a token (or raises).
C14_ConstructionTerminates == <>(pc \in {"ready", "raised"})

\* init() returned after MaxFailures failed continuation requests.
C14_Witness ==
    /\ pc = "ready"
    /\ Failures = MaxFailures
    /\ Len(requests) = Len(log) + MaxFailures


\* The entry reaches line 111 with all it needs there: a DONE job without
\* errors, at least one referenced table, each with its three ids, an identity
\* the filter lets through, and a totalTablesProcessed.
PassesFilters(e) ==
    /\ e.hasJob /\ e.state = "DONE" /\ e.error # "nonempty"
    /\ e.hasEmail /\ e.hasStats /\ e.hasTotal
    /\ e.hasRefs /\ Len(e.refs) >= 1
    /\ \A j \in 1..Len(e.refs) : TableComplete(e.refs[j])
    /\ email_pattern = <<>> \/ ReMatch(email_pattern, e.email)

\* C15: an entry that passes all filters makes one increment per referenced
\* table and raises no error, whether or not the number of its referenced
\* tables equals totalTablesProcessed.
C15_MismatchHarmless ==
    \A i \in 1..Len(processed) :
        LET e == EntryAt(processed[i])
        IN  PassesFilters(e) =>
                /\ Finished(i) => processed[i].incs = Len(e.refs)
                /\ ~(i = Len(processed) /\ pc = "raised")

\* The part of C15 the code keeps: with job['jobName']['jobId'] present, a
\* mismatch is logged once and the entry is counted like any other.
C15_HarmlessWhenJobNamePresent ==
    \A i \in 1..Len(processed) :
        LET e == EntryAt(processed[i])
        IN  (PassesFilters(e) /\ e.hasJobName) =>
                /\ Finished(i) => processed[i].incs = Len(e.refs)
                /\ ~(i = Len(processed) /\ pc = "raised")


\* The count of k, 0 when k is no key.
Count(d, k) == DictGet(d, k, 0)

\* C16: every key of the tally has a count of at least 1, and a step leaves
\* the tally as it is or raises the count of exactly one key by exactly 1, a
\* new key entering at 1: no count goes down and no key leaves.
C16_TallyGrowsByOne ==
    [][LET old == table_usage_counts
           new == table_usage_counts'
       IN  /\ \A i \in 1..Len(new) : new[i].value >= 1
           /\ Cardinality(Keys(new)) = Len(new)
           /\ Keys(old) \subseteq Keys(new)
           /\ \/ new = old
              \/ \E k \in Keys(new) :
                    /\ Count(new, k) = Count(old, k) + 1
                    /\ \A h \in Keys(new) \ {k} : Count(new, h) = Count(old, h)]_vars

\* The tally holds two keys, one of them counted twice.
C16_Witness ==
    /\ Len(table_usage_counts) = 2
    /\ \E i \in 1..2 : table_usage_counts[i].value = 2


\* The increments made so far: <<i, j>> is the j-th table counted for the
\* i-th entry handled.
Increments ==
    UNION {{<<i, j>> : j \in 1..processed[i].incs} : i \in 1..Len(processed)}

\* What an increment was made for: project, dataset, table and identity.
IncFields(inc) ==
    LET e == EntryAt(processed[inc[1]])
        t == e.refs[inc[2]]
    IN  <<t.projectId, t.datasetId, t.tableId, e.email>>

KeyFields(k) == <<k.cluster, k.schema, k.table, k.email>>

\* C17: increments share a key exactly when they agree on project, dataset,
\* table and identity: the keys of the tally all carry 'bigquery' and '*',
\* differ pairwise in those four fields, every increment has its key, and a
\* key's count is the number of increments that agree with it on the four.
C17_KeyIsTableAndIdentity ==
    LET d == table_usage_counts
    IN  /\ \A i \in 1..Len(d) : d[i].key.database = "bigquery" /\ d[i].key.column = "*"
        /\ \A i, j \in 1..Len(d) : KeyFields(d[i].key) = KeyFields(d[j].key) => i = j
        /\ \A inc \in Increments : \E i \in 1..Len(d) : KeyFields(d[i].key) = IncFields(inc)
        /\ \A i \in 1..Len(d) :
              d[i].value = Cardinality({inc \in Increments : IncFields(inc) = KeyFields(d[i].key)})

\* One table counted twice for one identity and once for another: two keys.
C17_Witness ==
    /\ pc = "ready"
    /\ \E i, j \in 1..Len(table_usage_counts) :
          LET a == table_usage_counts[i]
              b == table_usage_counts[j]
          IN  /\ <<a.key.cluster, a.key.schema, a.key.table>> =
                     <<b.key.cluster, b.key.schema, b.key.table>>
              /\ a.key.email # b.key.email
              /\ a.value = 2 /\ b.value = 1


\* The keys of the increments of the entries handled up to the i-th, in the
\* order in which they were made.
RECURSIVE IncKeys(_)
IncKeys(i) ==
    IF i = 0
    THEN <<>>
    ELSE LET e == EntryAt(processed[i])
         IN  IncKeys(i - 1) \o
             [j \in 1..processed[i].incs |-> TableColumnUsageTuple(e.refs[j], e.email)]

\* s without the repeats: each element at the place of its first occurrence.
RECURSIVE FirstSeen(_)
FirstSeen(s) ==
    IF s = <<>>
    THEN <<>>
    ELSE LET front == FirstSeen(SubSeq(s, 1, Len(s) - 1))
             last == s[Len(s)]
         IN  IF \E i \in 1..Len(front) : front[i] = last
             THEN front
             ELSE Append(front, last)

\* C18: the i-th pair extract() returns carries the i-th key in the order in
\* which the keys were first recorded; a repeat of a key moves nothing.
C18_FirstSeenOrder ==
    LET order == FirstSeen(IncKeys(Len(processed)))
    IN  \A i \in 1..Len(results) :
           results[i].kind = "pair" => i <= Len(order) /\ results[i].key = order[i]

\* Two pairs were returned, and the key of the first was recorded again after
\* the key of the second had been recorded.
C18_Witness ==
    LET incs == IncKeys(Len(processed))
    IN  /\ Len(results) >= 2
        /\ results[1].kind = "pair" /\ results[2].kind = "pair"
        /\ \E a, b, c \in 1..Len(incs) :
              /\ a < b /\ b < c
              /\ incs[a] = results[1].key /\ incs[c] = results[1].key
              /\ incs[b] = results[2].key

====
